---- MODULE Spec2Model ----
(***************************************************************************)
(* Doubles pickleball tournament scheduling (Pickleball.ipynb):            *)
(* all_pairs, make_games, schedule, opponents, opp_difference and the      *)
(* hillclimbing loop of pickleball.                                        *)
(*                                                                         *)
(* A player is a natural number, a pair a 2-tuple of players, a game a     *)
(* 2-tuple of pairs.  The games list of pickleball is a sequence of games; *)
(* a game object is identified by its position in that list (swap mutates  *)
(* the game objects in place and never reorders the list).  A round is a   *)
(* sequence of references to game objects (positions), a schedule a        *)
(* sequence of rounds.  Sides of the net and random game indexes are       *)
(* 0-based as in the source.                                               *)
(***************************************************************************)
EXTENDS Integers, Sequences, FiniteSets, TLC

\* ---- bounds ------------------------------------------------------------
MaxP == 6          \* pickleball(P, courts, N) is run for P in 0..MaxP,
MaxCourts == 2     \*   courts in 0..MaxCourts and N in 0..MaxN, and for the
MaxN == 1          \*   8 and the 16 player tournament with N in 0..MaxN
MaxSpin == 3       \* empty rounds recorded of a schedule call that never returns
MaxAllP == 8       \* single calls on all_pairs(p) and its games, p in 0..MaxAllP
PairPlayers == 5   \* single calls of make_games: lists of up to MaxPairs distinct
MaxPairs == 3      \*   pairs of the players 0..PairPlayers-1
MaxGames == 3      \* single calls of schedule: up to MaxGames distinct games
OppPlayers == 4    \* single calls of opp_difference: up to MaxOppGames games of
MaxOppGames == 1   \*   the players 0..OppPlayers-1, optimal in 0..MaxOptimal
MaxOptimal == 3
MaxSeed == 20      \* a process is seeded with a generator state in 0..MaxSeed
MaxCalls == 2      \*   and calls pickleball up to MaxCalls times in a row
MaxAllDraws == 7   \* a trial on up to MaxAllDraws games takes any indexes at all;
MaxDraw == 120     \*   on more games, the indexes the generator yields from any
                   \*   state in 0..MaxDraw

\* The 8 player tournament of the notebook: pickleball(8, 2).
BigP == 8
BigCourts == 2

\* The 16 player tournament of the notebook: pickleball(P=16, courts=4).
TourP == 16
TourCourts == 4

\* ---- basic helpers -----------------------------------------------------
Range(s) == {s[k] : k \in 1..Len(s)}

abs(x) == IF x < 0 THEN -x ELSE x

\* The absent result of make_games (Python's None): no game list equals it.
None == << <<>> >>

\* ---- all_pairs ---------------------------------------------------------
\* combinations(range(P), 2) in lexicographic order: for each first player a
\* from a0 on, the pairs (a, a+1), ..., (a, P-1).
RECURSIVE combinations2(_, _)
combinations2(a0, P) ==
    IF a0 >= P - 1 THEN <<>>
    ELSE [k \in 1..(P - 1 - a0) |-> <<a0, a0 + k>>] \o combinations2(a0 + 1, P)

all_pairs(P) == combinations2(0, P)

\* ---- make_games --------------------------------------------------------
\* The pairs left for the other games: [p for p in pairs if p not in game].
not_in_game(pairs, game) == SelectSeq(pairs, LAMBDA p : p # game[1] /\ p # game[2])

Least(ks) == CHOOSE k \in ks : \A j \in ks : k <= j

\* no_game_left that also gives up on two remaining pairs.
no_game_left_of_two(pairs) == Len(pairs) < 3

\* if len(pairs) < 2: return []
no_game_left(pairs) == Len(pairs) < 2

\* next_B that takes any pair other than A itself.
next_B_any(pairs, from) ==
    LET A == pairs[1]
        ks == {k \in from..Len(pairs) :
                  Cardinality({A[1], A[2], pairs[k][1], pairs[k][2]}) >= 3}
    IN  IF ks = {} THEN 0 ELSE Least(ks)

\* next_B that gives up at the first pair that does not make 4 players with A.
next_B_nearest(pairs, from) ==
    LET A == pairs[1]
        k == IF from < 2 THEN 2 ELSE from
    IN  IF k <= Len(pairs) /\ Cardinality({A[1], A[2], pairs[k][1], pairs[k][2]}) = 4
        THEN k ELSE 0

\* The for loop up to its next if: the position of the first B at or after
\* from that has 4 players with A = pairs[0]; 0 if there is none.
next_B(pairs, from) ==
    LET A == pairs[1]
        ks == {k \in from..Len(pairs) :
                  Cardinality({A[1], A[2], pairs[k][1], pairs[k][2]}) = 4}
    IN  IF ks = {} THEN 0 ELSE Least(ks)

\* make_games as the interpreter runs it.  A frame is one activation of
\* make_games: its argument pairs and the position k of its current B.  In
\* mode "call" a new activation starts on arg; in mode "return" the value val
\* comes back to the innermost frame, as other_games.
make_games_call(st, pairs) ==
    LET k == next_B(pairs, 1)
    IN  IF no_game_left(pairs) THEN [st EXCEPT !.mode = "return", !.val = <<>>]
        ELSE IF k = 0 THEN [st EXCEPT !.mode = "return", !.val = None]
        ELSE [st EXCEPT !.mode = "call",
                        !.frames = Append(st.frames, [pairs |-> pairs, k |-> k]),
                        !.arg = not_in_game(pairs, <<pairs[1], pairs[k]>>)]

\* other_games has come back to the innermost frame: the result is returned
\* when it is not None, else the for loop goes on to the next B.
make_games_return(st) ==
    LET f == st.frames[Len(st.frames)]
        outer == SubSeq(st.frames, 1, Len(st.frames) - 1)
        k2 == next_B(f.pairs, f.k + 1)
    IN  IF st.val # None
        THEN [st EXCEPT !.frames = outer,
                        !.val = <<<<f.pairs[1], f.pairs[f.k]>>>> \o st.val]
        ELSE IF k2 = 0 THEN [st EXCEPT !.frames = outer]
        ELSE [st EXCEPT !.mode = "call",
                        !.frames = Append(outer, [pairs |-> f.pairs, k |-> k2]),
                        !.arg = not_in_game(f.pairs, <<f.pairs[1], f.pairs[k2]>>)]

make_games_step(st) ==
    IF st.mode = "call" THEN make_games_call(st, st.arg) ELSE make_games_return(st)

make_games_done(st) == st.mode = "return" /\ st.frames = <<>>

\* Up to n steps of the interpreter: the first half of them, then the rest
\* from the state half they have left, so that the evaluation nests to a
\* depth logarithmic in n.
RECURSIVE make_games_steps(_, _)
make_games_steps(st, n) ==
    IF n <= 0 \/ make_games_done(st) THEN st
    ELSE IF n = 1 THEN make_games_step(st)
    ELSE CHOOSE end \in {make_games_steps(half, n - n \div 2) :
                          half \in {make_games_steps(st, n \div 2)}} : TRUE

\* The run of the interpreter to the return of the outermost activation; the
\* search is finite, so that some number of steps ends it.
RECURSIVE make_games_run(_, _)
make_games_run(st, steps) ==
    LET end == make_games_steps(st, steps)
    IN  IF make_games_done(end) THEN end.val ELSE make_games_run(end, 2 * steps)

make_games(pairs) ==
    make_games_run([mode |-> "call", frames |-> <<>>, arg |-> pairs, val |-> <<>>],
                   Len(pairs) + 1)

\* ---- schedule ----------------------------------------------------------
disjoint(A, B) == A \cap B = {}

\* players(game) and players(round); a round holds references into games.
players_game(game) == {game[1][1], game[1][2], game[2][1], game[2][2]}

players_round(games, round) ==
    UNION {players_game(games[round[k]]) : k \in 1..Len(round)}

\* list.remove(game): drops the first remaining game equal to game.
list_remove(games, rem, game) ==
    LET ks == {k \in 1..Len(rem) : games[rem[k]] = games[game]}
    IN  IF ks = {} THEN rem
        ELSE SubSeq(rem, 1, Least(ks) - 1) \o SubSeq(rem, Least(ks) + 1, Len(rem))

\* scan_round that does not look at the players already in the round.
RECURSIVE scan_round_nodisjoint(_, _, _, _, _)
scan_round_nodisjoint(games, courts, snap, round, rem) ==
    IF snap = <<>> THEN <<round, rem>>
    ELSE LET game == Head(snap)
         IN  IF Len(round) < courts
             THEN scan_round_nodisjoint(games, courts, Tail(snap),
                                        Append(round, game), list_remove(games, rem, game))
             ELSE scan_round_nodisjoint(games, courts, Tail(snap), round, rem)

\* scan_round that iterates over the list it removes from (no copy): after a
\* removal the iterator skips the game that moved into the freed position.
RECURSIVE scan_live(_, _, _, _, _)
scan_live(games, courts, i, round, rem) ==
    IF i > Len(rem) THEN <<round, rem>>
    ELSE LET game == rem[i]
         IN  IF Len(round) < courts
                /\ disjoint(players_round(games, round), players_game(games[game]))
             THEN scan_live(games, courts, i + 1,
                            Append(round, game), list_remove(games, rem, game))
             ELSE scan_live(games, courts, i + 1, round, rem)

scan_round_live(games, courts, snap, round, rem) ==
    scan_live(games, courts, 1, round, rem)

\* scan_game that keeps the last court of a round free.
scan_game_spare_court(games, courts, st, game) ==
    IF Len(st[1]) + 1 < courts
       /\ disjoint(players_round(games, st[1]), players_game(games[game]))
    THEN <<Append(st[1], game), list_remove(games, st[2], game)>>
    ELSE st

\* One pass of the inner for loop: st = <<round, rem>> before and after.
scan_game(games, courts, st, game) ==
    IF Len(st[1]) < courts
       /\ disjoint(players_round(games, st[1]), players_game(games[game]))
    THEN <<Append(st[1], game), list_remove(games, st[2], game)>>
    ELSE st

\* The passes lo..hi of the inner for loop over snap: the first half of them,
\* then the rest from the state half they have left.
RECURSIVE scan_from(_, _, _, _, _, _)
scan_from(games, courts, snap, st, lo, hi) ==
    IF lo > hi THEN st
    ELSE IF lo = hi THEN scan_game(games, courts, st, snap[lo])
    ELSE CHOOSE end \in {scan_from(games, courts, snap, half, (lo + hi) \div 2 + 1, hi) :
                          half \in {scan_from(games, courts, snap, st, lo, (lo + hi) \div 2)}} :
             TRUE

\* The inner for loop over a copy (snap) of the remaining games.
scan_round(games, courts, snap, round, rem) ==
    scan_from(games, courts, snap, <<round, rem>>, 1, Len(snap))

\* One pass of the while loop: a round is filled and appended.  A pass that
\* removes no game leaves the loop where it was: it repeats for ever (stuck).
schedule_pass(games, courts, st) ==
    LET r == scan_round(games, courts, st.rem, <<>>, st.rem)
    IN  IF r[2] = st.rem THEN [st EXCEPT !.stuck = TRUE]
        ELSE [rem |-> r[2], sched |-> Append(st.sched, r[1]), stuck |-> FALSE]

\* The while loop, until no game remains or a pass is stuck; every other pass
\* removes a game, so there are at most len(games) of them.
RECURSIVE schedule_passes(_, _, _, _)
schedule_passes(games, courts, st, n) ==
    IF n <= 0 \/ st.rem = <<>> \/ st.stuck THEN st
    ELSE IF n = 1 THEN schedule_pass(games, courts, st)
    ELSE CHOOSE end \in {schedule_passes(games, courts, half, n - n \div 2) :
                          half \in {schedule_passes(games, courts, st, n \div 2)}} : TRUE

schedule_while(games, courts) ==
    schedule_passes(games, courts,
                    [rem |-> [k \in 1..Len(games) |-> k], sched |-> <<>>, stuck |-> FALSE],
                    Len(games))

\* The while loop never ends: games remain and no pass removes one.
schedule_diverges(games, courts) == schedule_while(games, courts).stuck

schedule(games, courts) == schedule_while(games, courts).sched

\* The rounds of a schedule as values: each reference replaced by its game.
RoundsOf(games, sched) ==
    [r \in 1..Len(sched) |-> [k \in 1..Len(sched[r]) |-> games[sched[r][k]]]]

\* ---- opponents, opp_difference -----------------------------------------
pairing(p1, p2) == <<IF p1 < p2 THEN p1 ELSE p2, IF p1 < p2 THEN p2 ELSE p1>>

\* The Counter of opponents as a function on the pairings counted so far;
\* count(opp, pair) is opp[pair], 0 for a pair never counted.
count(opp, pair) == IF pair \in DOMAIN opp THEN opp[pair] ELSE 0

inc(opp, key) ==
    IF key \in DOMAIN opp THEN [opp EXCEPT ![key] = @ + 1] ELSE opp @@ (key :> 1)

\* pairing(p1, p2) for p1 in A for p2 in B, each counted once.
tally(opp, game) ==
    LET A == game[1]
        B == game[2]
    IN  inc(inc(inc(inc(opp, pairing(A[1], B[1])), pairing(A[1], B[2])),
                pairing(A[2], B[1])), pairing(A[2], B[2]))

\* The Counter fed the games lo..hi: the first half of them, then the rest.
RECURSIVE opponents_from(_, _, _, _)
opponents_from(games, opp, lo, hi) ==
    IF lo > hi THEN opp
    ELSE IF lo = hi THEN tally(opp, games[lo])
    ELSE CHOOSE end \in {opponents_from(games, half, (lo + hi) \div 2 + 1, hi) :
                          half \in {opponents_from(games, opp, lo, (lo + hi) \div 2)}} : TRUE

\* The Counter fed game by game.
opponents(games) == opponents_from(games, <<>>, 1, Len(games))

\* opp_sum without abs.
RECURSIVE opp_sum_noabs(_, _, _, _, _)
opp_sum_noabs(opp, pairs, optimal, lo, hi) ==
    IF lo > hi THEN 0
    ELSE IF lo = hi
    THEN LET d == count(opp, pairs[lo]) - optimal IN d * d * d
    ELSE LET mid == (lo + hi) \div 2
         IN  opp_sum_noabs(opp, pairs, optimal, lo, mid)
             + opp_sum_noabs(opp, pairs, optimal, mid + 1, hi)

\* sum(abs(opp[pair] - optimal) ** 3 for pair in pairs), over pairs[lo..hi]:
\* the sum of the two halves.
RECURSIVE opp_sum(_, _, _, _, _)
opp_sum(opp, pairs, optimal, lo, hi) ==
    IF lo > hi THEN 0
    ELSE IF lo = hi
    THEN LET d == abs(count(opp, pairs[lo]) - optimal) IN d * d * d
    ELSE LET mid == (lo + hi) \div 2
         IN  opp_sum(opp, pairs, optimal, lo, mid)
             + opp_sum(opp, pairs, optimal, mid + 1, hi)

opp_difference(games, pairs, optimal) ==
    LET opp == opponents(games) IN opp_sum(opp, pairs, optimal, 1, Len(pairs))

\* The default optimal=2 of opp_difference.
Optimal == 2

\* ---- indexes, swap -----------------------------------------------------
sides == << <<0, 0>>, <<1, 1>>, <<0, 1>>, <<1, 0>> >>

\* The values indexes(games) can return: two distinct game indexes, a side pair.
indexes(games) ==
    {<<<<i, j>>, s>> : <<i, j>> \in {ij \in (0..Len(games) - 1) \X (0..Len(games) - 1) :
                                        ij[1] # ij[2]},
                       s \in Range(sides)}

\* The random module as a generator whose state is a natural number:
\* a draw below m takes the state's last digit in base m and leaves the rest,
\* so the states 0, 1, 2, ... give every sequence of draws.
randbelow(r, m) == [value |-> r % m, rng |-> r \div m]

\* random.seed(a) without effect.
random_seed_noop(a, r) == r

\* random.seed(a): the generator state becomes the one that a stands for,
\* whatever it was.
random_seed(a, r) == a

\* indexes(games) drawn from generator state r:
\* random.sample(range(len(games)), 2), then random.choice(sides).
\* sample picks pool[j] for j below the pool size and moves the last element
\* of the pool into its place.
indexes_drawn(r, len) ==
    LET d1 == randbelow(r, len)
        d2 == randbelow(d1.rng, len - 1)
        d3 == randbelow(d2.rng, Len(sides))
        i  == d1.value
        j  == IF d2.value = i THEN len - 1 ELSE d2.value
    IN  [idx |-> <<<<i, j>>, sides[d3.value + 1]>>, rng |-> d3.rng]

\* swap by two assignments in a row: the second reads what the first wrote.
swap_in_turn(games, idx) ==
    LET g1 == idx[1][1] + 1
        g2 == idx[1][2] + 1
        a  == idx[2][1] + 1
        b  == idx[2][2] + 1
        games1 == [games EXCEPT ![g1][a] = games[g2][b]]
    IN  [games1 EXCEPT ![g2][b] = games1[g1][a]]

swap(games, idx) ==
    LET g1 == idx[1][1] + 1
        g2 == idx[1][2] + 1
        a  == idx[2][1] + 1
        b  == idx[2][2] + 1
        x  == games[g2][b]
        y  == games[g1][a]
        games1 == [games EXCEPT ![g1][a] = x]
    IN  [games1 EXCEPT ![g2][b] = y]

\* ---- pickleball --------------------------------------------------------
VARIABLES
    P, courts, N,   \* the arguments of pickleball
    pairs,          \* all_pairs(P)
    pc,             \* "call", "loop", "swapped", "schedule", "raised", "done";
                    \* "fun", "returned" for a single function call;
                    \* "while", "return" for a call of schedule pass by pass
    err,            \* the exception raised, "" if none
    games,          \* the games list (None when make_games found no games)
    diff, sched,    \* the cost and the schedule kept so far
    n,              \* trials completed
    idx, diff2,     \* locals of the trial in progress (dead between trials)
    before,         \* history: <<games, sched, diff>> when the last trial began
    hist,           \* history: outcome of the last trial, whether its swap gave
                    \*   a game with a repeated player, games, sched and diff at
                    \*   the start of the loop, the games (as values) of the rounds
                    \*   of sched when sched was last assigned
    fn, arg, ret,   \* a single call of one function: its name, arguments, result
    rng,            \* the state of the random module's generator
    proc            \* the process: the seed of random.seed, whether no call has
                    \*   returned since seeding, the results of the calls so far

pvars == <<P, courts, N, pairs, pc, err, games, diff, sched, n, idx, diff2, before, hist>>
fvars == <<fn, arg, ret>>
rvars == <<rng, proc>>
vars == <<P, courts, N, pairs, pc, err, games, diff, sched, n, idx, diff2, before, hist, fn, arg, ret,
          rng, proc>>

NoArg == [pairs |-> <<>>, games |-> <<>>, courts |-> 0, optimal |-> 0]

NoIdx == <<<<0, 0>>, <<0, 0>>>>

NoHist == [outcome |-> "none", malformed |-> FALSE, games0 |-> <<>>, sched0 |-> <<>>,
           diff0 |-> 0, candidate |-> <<>>]
NoBefore == <<<<>>, <<>>, 0>>
NoProc == [seed |-> 0, fresh |-> TRUE, results |-> <<>>]

Init ==
    /\ \/ P \in 0..MaxP /\ courts \in 0..MaxCourts
       \/ P = BigP /\ courts = BigCourts
    /\ N \in 0..MaxN
    /\ pairs = <<>>
    /\ pc = "call"
    /\ err = ""
    /\ games = <<>>
    /\ diff = 0
    /\ sched = <<>>
    /\ n = 0
    /\ idx = NoIdx
    /\ diff2 = 0
    /\ before = NoBefore
    /\ hist = NoHist
    /\ fn = ""
    /\ arg = NoArg
    /\ ret = <<>>
    /\ rng = 0
    /\ proc = NoProc

\* pairs .. sched = schedule(games, courts): the four statements before the loop.
Setup ==
    /\ pc = "call"
    /\ pairs' = all_pairs(P)
    /\ games' = make_games(pairs')
    /\ IF games' = None
       THEN \* opp_difference iterates over None
            /\ pc' = "raised"
            /\ err' = "TypeError"
            /\ UNCHANGED <<diff, sched, hist>>
       ELSE /\ diff' = opp_difference(games', pairs', Optimal)
            /\ IF schedule_diverges(games', courts)
               THEN /\ pc' = "schedule"
                    /\ sched' = <<>>
               ELSE /\ pc' = "loop"
                    /\ sched' = schedule(games', courts)
            /\ err' = ""
            /\ hist' = [hist EXCEPT !.games0 = games', !.sched0 = sched', !.diff0 = diff',
                                    !.candidate = RoundsOf(games', sched')]
    /\ UNCHANGED <<P, courts, N, n, idx, diff2, before>>
    /\ UNCHANGED fvars
    /\ UNCHANGED rvars

\* schedule called with courts < 1: every pass appends an empty round.
ScheduleSpin ==
    /\ pc = "schedule"
    /\ Len(sched) < MaxSpin
    /\ sched' = Append(sched, <<>>)
    /\ UNCHANGED <<P, courts, N, pairs, pc, err, games, diff, n, idx, diff2, before, hist>>
    /\ UNCHANGED fvars
    /\ UNCHANGED rvars

\* idx = indexes(games); swap(games, idx); diff2 = opp_difference(games, pairs)
Swap(i) ==
    /\ games' = swap(games, i)
    /\ idx' = i
    /\ diff2' = opp_difference(games', pairs, Optimal)
    /\ before' = <<games, sched, diff>>
    /\ hist' = [hist EXCEPT !.outcome = "none", !.malformed =
                    \E g \in 1..Len(games') : Cardinality(players_game(games'[g])) < 4]
    /\ pc' = "swapped"
    /\ UNCHANGED <<P, courts, N, pairs, err, diff, sched, n>>
    /\ UNCHANGED fvars

\* random.sample raises ValueError when there are fewer than two games.
SampleFails ==
    /\ pc = "loop"
    /\ n < N
    /\ Len(games) < 2
    /\ pc' = "raised"
    /\ err' = "ValueError"
    /\ UNCHANGED <<P, courts, N, pairs, games, diff, sched, n, idx, diff2, before, hist>>
    /\ UNCHANGED fvars
    /\ UNCHANGED rvars

\* The indexes a trial may draw.
draws(gs) ==
    IF Len(gs) <= MaxAllDraws THEN indexes(gs)
    ELSE {indexes_drawn(r, Len(gs)).idx : r \in 0..MaxDraw}

Trial ==
    /\ pc = "loop"
    /\ n < N
    /\ Len(games) >= 2
    /\ \E i \in draws(games) : Swap(i)
    /\ UNCHANGED rvars

\* KeepCondition without the comparison of the numbers of rounds.
KeepCondition_anyrounds ==
    /\ diff2 <= diff
    /\ Cardinality(players_game(games[idx[1][1] + 1])) = 4
    /\ Cardinality(players_game(games[idx[1][2] + 1])) = 4

\* KeepCondition without the check of 4 players in the two games.
KeepCondition_anyplayers ==
    /\ diff2 <= diff
    /\ Len(schedule(games, courts)) <= Len(sched)

\* The condition of the if statement in the loop.
KeepCondition ==
    /\ diff2 <= diff
    /\ Len(schedule(games, courts)) <= Len(sched)
    /\ Cardinality(players_game(games[idx[1][1] + 1])) = 4
    /\ Cardinality(players_game(games[idx[1][2] + 1])) = 4

\* Keep that takes diff2 and leaves sched as it was.
Keep_diff_only ==
    /\ pc = "swapped"
    /\ KeepCondition
    /\ diff' = diff2
    /\ n' = n + 1
    /\ pc' = "loop"
    /\ idx' = NoIdx
    /\ diff2' = 0
    /\ hist' = [hist EXCEPT !.outcome = "kept"]
    /\ UNCHANGED <<P, courts, N, pairs, err, games, sched, before>>
    /\ UNCHANGED fvars
    /\ UNCHANGED rvars

Keep ==
    /\ pc = "swapped"
    /\ KeepCondition
    /\ sched' = schedule(games, courts)
    /\ diff' = diff2
    /\ n' = n + 1
    /\ pc' = "loop"
    /\ idx' = NoIdx
    /\ diff2' = 0
    /\ hist' = [hist EXCEPT !.outcome = "kept",
                            !.candidate = RoundsOf(games, sched')]
    /\ UNCHANGED <<P, courts, N, pairs, err, games, before>>
    /\ UNCHANGED fvars
    /\ UNCHANGED rvars

Revert ==
    /\ pc = "swapped"
    /\ ~KeepCondition
    /\ games' = swap(games, idx)
    /\ n' = n + 1
    /\ pc' = "loop"
    /\ idx' = NoIdx
    /\ diff2' = 0
    /\ hist' = [hist EXCEPT !.outcome = "reverted"]
    /\ UNCHANGED <<P, courts, N, pairs, err, diff, sched, before>>
    /\ UNCHANGED fvars
    /\ UNCHANGED rvars

Return ==
    /\ pc = "loop"
    /\ n = N
    /\ pc' = "done"
    /\ UNCHANGED <<P, courts, N, pairs, err, games, diff, sched, n, idx, diff2, before, hist>>
    /\ UNCHANGED fvars
    /\ UNCHANGED rvars

Next == Setup \/ ScheduleSpin \/ SampleFails \/ Trial \/ Keep \/ Revert \/ Return

Spec == Init /\ [][Next]_vars

\* ---- single calls of make_games, schedule and opp_difference -----------
\* The sequences of at most maxlen distinct elements of S.
DistinctSeqs(S, maxlen) ==
    UNION {{q \in [1..k -> S] : \A x, y \in 1..k : x # y => q[x] # q[y]} :
           k \in 0..maxlen}

AnySeqs(S, maxlen) == UNION {[1..k -> S] : k \in 0..maxlen}

PairLists == DistinctSeqs(Range(all_pairs(PairPlayers)), MaxPairs)

\* The game lists pickleball starts from.
FullLists == {make_games(all_pairs(p)) : p \in 0..MaxAllP} \ {None}

GameLists == DistinctSeqs(Range(make_games(all_pairs(BigP))), MaxGames)

\* Any two pairs make a game here, as in the middle of a trial.
OppGameLists ==
    AnySeqs(Range(all_pairs(OppPlayers)) \X Range(all_pairs(OppPlayers)), MaxOppGames)

MakeGamesArgs ==
    {[NoArg EXCEPT !.pairs = ps] :
        ps \in PairLists \cup {all_pairs(p) : p \in 0..MaxAllP}}

ScheduleArgs ==
    {[NoArg EXCEPT !.games = gs, !.courts = c] :
        gs \in GameLists \cup FullLists, c \in 1..MaxCourts}

OppArgs ==
    {[NoArg EXCEPT !.games = gs, !.pairs = all_pairs(OppPlayers), !.optimal = o] :
        gs \in OppGameLists, o \in 0..MaxOptimal}
    \cup {[NoArg EXCEPT !.games = make_games(all_pairs(p)), !.pairs = all_pairs(p),
                        !.optimal = o] : p \in 4..MaxAllP, o \in 0..MaxOptimal}

FunInit ==
    /\ fn \in {"make_games", "schedule", "opp_difference"}
    /\ arg \in CASE fn = "make_games" -> MakeGamesArgs
               [] fn = "schedule" -> ScheduleArgs
               [] OTHER -> OppArgs
    /\ ret = <<>>
    /\ rng = 0
    /\ proc = NoProc
    /\ pc = "fun"
    /\ P = 0 /\ courts = 0 /\ N = 0
    /\ pairs = <<>>
    /\ err = ""
    /\ games = <<>>
    /\ diff = 0
    /\ sched = <<>>
    /\ n = 0
    /\ idx = NoIdx
    /\ diff2 = 0
    /\ before = NoBefore
    /\ hist = NoHist

ApplyMakeGames ==
    /\ pc = "fun" /\ fn = "make_games"
    /\ ret' = make_games(arg.pairs)
    /\ pc' = "returned"
    /\ UNCHANGED <<P, courts, N, pairs, err, games, diff, sched, n, idx, diff2, before, hist, fn, arg>>
    /\ UNCHANGED rvars

ApplySchedule ==
    /\ pc = "fun" /\ fn = "schedule"
    /\ ret' = schedule(arg.games, arg.courts)
    /\ pc' = "returned"
    /\ UNCHANGED <<P, courts, N, pairs, err, games, diff, sched, n, idx, diff2, before, hist, fn, arg>>
    /\ UNCHANGED rvars

ApplyOppDifference ==
    /\ pc = "fun" /\ fn = "opp_difference"
    /\ ret' = opp_difference(arg.games, arg.pairs, arg.optimal)
    /\ pc' = "returned"
    /\ UNCHANGED <<P, courts, N, pairs, err, games, diff, sched, n, idx, diff2, before, hist, fn, arg>>
    /\ UNCHANGED rvars

FunNext == ApplyMakeGames \/ ApplySchedule \/ ApplyOppDifference

FunSpec == FunInit /\ [][FunNext]_vars

\* ---- a process that seeds the generator and calls pickleball ------------
\* The notebook seeds the generator once, when it is loaded (the generator of
\* a new process is in any state r before); every call of pickleball draws
\* from the state the generator is in.
ProcInit ==
    /\ P \in 4..MaxP
    /\ courts \in 1..MaxCourts
    /\ N \in 0..MaxN
    /\ \E a, r \in 0..MaxSeed :
          /\ proc = [seed |-> a, fresh |-> TRUE, results |-> <<>>]
          /\ rng = random_seed(a, r)
    /\ pairs = <<>>
    /\ pc = "call"
    /\ err = ""
    /\ games = <<>>
    /\ diff = 0
    /\ sched = <<>>
    /\ n = 0
    /\ idx = NoIdx
    /\ diff2 = 0
    /\ before = NoBefore
    /\ hist = NoHist
    /\ fn = ""
    /\ arg = NoArg
    /\ ret = <<>>

\* A trial whose indexes come from the generator.
DrawnTrial ==
    /\ pc = "loop"
    /\ n < N
    /\ Len(games) >= 2
    /\ LET d == indexes_drawn(rng, Len(games))
       IN  /\ Swap(d.idx)
           /\ rng' = d.rng
    /\ UNCHANGED proc

\* What the call that has returned leaves behind.
Result ==
    [fresh |-> proc.fresh, games |-> games, sched |-> RoundsOf(games, sched),
     diff |-> diff]

NextCall ==
    /\ pc = "done"
    /\ Len(proc.results) + 1 < MaxCalls
    /\ pc' = "call"
    /\ pairs' = <<>>
    /\ err' = ""
    /\ games' = <<>>
    /\ diff' = 0
    /\ sched' = <<>>
    /\ n' = 0
    /\ idx' = NoIdx
    /\ diff2' = 0
    /\ before' = NoBefore
    /\ hist' = NoHist
    /\ UNCHANGED <<P, courts, N>>
    /\ UNCHANGED fvars

\* pickleball is called again in the same process.
CallAgain ==
    /\ NextCall
    /\ proc' = [proc EXCEPT !.results = Append(@, Result), !.fresh = FALSE]
    /\ UNCHANGED rng

\* The notebook is run again from the top, in a new process whose generator
\* is in any state r: random.seed, then the call.
Restart ==
    /\ NextCall
    /\ proc' = [proc EXCEPT !.results = Append(@, Result), !.fresh = TRUE]
    /\ \E r \in 0..MaxSeed : rng' = random_seed(proc.seed, r)

ProcNext ==
    Setup \/ DrawnTrial \/ Keep \/ Revert \/ Return \/ CallAgain \/ Restart

ProcSpec == ProcInit /\ [][ProcNext]_vars

\* ---- a call of schedule, pass by pass ------------------------------------
\* The game lists pickleball hands to schedule in the middle of a trial: the
\* initial games after one swap, many with a game in which a player is twice.
SwappedLists ==
    UNION {{swap(make_games(all_pairs(p)), i) : i \in indexes(make_games(all_pairs(p)))} :
           p \in 4..MaxAllP}

PassArgs ==
    {[NoArg EXCEPT !.games = gs, !.courts = c] :
        gs \in FullLists \cup SwappedLists, c \in 1..MaxCourts}

\* ret holds the state of the while loop; ret.sched is what schedule returns.
PassInit ==
    /\ fn = "schedule"
    /\ arg \in PassArgs
    /\ ret = [rem |-> [k \in 1..Len(arg.games) |-> k], sched |-> <<>>, stuck |-> FALSE]
    /\ pc = "while"
    /\ rng = 0
    /\ proc = NoProc
    /\ P = 0 /\ courts = 0 /\ N = 0
    /\ pairs = <<>>
    /\ err = ""
    /\ games = <<>>
    /\ diff = 0
    /\ sched = <<>>
    /\ n = 0
    /\ idx = NoIdx
    /\ diff2 = 0
    /\ before = NoBefore
    /\ hist = NoHist

\* while games: one pass.
SchedulePass ==
    /\ pc = "while"
    /\ ret.rem # <<>>
    /\ ret' = schedule_pass(arg.games, arg.courts, ret)
    /\ UNCHANGED <<P, courts, N, pairs, pc, err, games, diff, sched, n, idx, diff2, before, hist, fn, arg>>
    /\ UNCHANGED rvars

\* The loop has ended: return sched.
ScheduleReturn ==
    /\ pc = "while"
    /\ ret.rem = <<>>
    /\ pc' = "return"
    /\ UNCHANGED <<P, courts, N, pairs, err, games, diff, sched, n, idx, diff2, before, hist, fn, arg, ret>>
    /\ UNCHANGED rvars

PassNext == SchedulePass \/ ScheduleReturn

\* The interpreter keeps running the loop.
PassSpec == PassInit /\ [][PassNext]_vars /\ WF_vars(PassNext)

\* ---- the 16 player tournament --------------------------------------------
\* pickleball(16, 4, N).
TourInit ==
    /\ P = TourP
    /\ courts = TourCourts
    /\ N \in 0..MaxN
    /\ pairs = <<>>
    /\ pc = "call"
    /\ err = ""
    /\ games = <<>>
    /\ diff = 0
    /\ sched = <<>>
    /\ n = 0
    /\ idx = NoIdx
    /\ diff2 = 0
    /\ before = NoBefore
    /\ hist = NoHist
    /\ fn = ""
    /\ arg = NoArg
    /\ ret = <<>>
    /\ rng = 0
    /\ proc = NoProc

TourNext == Setup \/ Trial \/ Keep \/ Revert \/ Return

TourSpec == TourInit /\ [][TourNext]_vars

\* ---- properties of pickleball -------------------------------------------
ValidConfig == P >= 4 /\ courts >= 1

WellFormedGame(game) == Cardinality(players_game(game)) = 4

\* C1: for P >= 4 and courts >= 1, no trial makes diff or the number of rounds
\* of sched larger than it was before the trial, so neither ever exceeds its
\* value at the start of the loop: opp_difference and schedule of
\* make_games(all_pairs(P)).
C1_NeverWorse ==
    (ValidConfig /\ pc \in {"loop", "swapped", "done"}) =>
        /\ (n = 0 /\ pc = "loop") =>
              /\ pairs = all_pairs(P)
              /\ games = make_games(pairs)
              /\ hist.diff0 = opp_difference(games, pairs, Optimal)
              /\ hist.sched0 = schedule(games, courts)
              /\ diff = hist.diff0
              /\ sched = hist.sched0
        /\ diff <= hist.diff0
        /\ Len(sched) <= Len(hist.sched0)
        /\ (n > 0 \/ pc = "swapped") =>
              /\ diff <= before[3]
              /\ Len(sched) <= Len(before[2])

\* A kept trial of the 8 player tournament that lowered the cost.
C1_Witness ==
    /\ P = BigP /\ ValidConfig /\ pc = "done"
    /\ hist.outcome = "kept"
    /\ diff < before[3]

\* C2: for P >= 4 and courts >= 1, between trials and at the return every game
\* of the games list has 4 distinct players, no player is in two games of a
\* round of sched, and every round has between 1 and courts games.
C2_WellFormedSchedule ==
    (ValidConfig /\ pc \in {"loop", "done"}) =>
        /\ \A g \in 1..Len(games) : WellFormedGame(games[g])
        /\ \A r \in 1..Len(sched) :
              /\ Len(sched[r]) >= 1
              /\ Len(sched[r]) <= courts
              /\ \A x \in 1..Len(sched[r]) : WellFormedGame(games[sched[r][x]])
              /\ \A x, y \in 1..Len(sched[r]) :
                    x # y => disjoint(players_game(games[sched[r][x]]),
                                      players_game(games[sched[r][y]]))

\* The return after a trial whose swap gave a game with a repeated player.
C2_Witness ==
    /\ ValidConfig /\ pc = "done"
    /\ hist.outcome = "reverted" /\ hist.malformed

\* C6: after a rejected trial games, sched and diff are what they were when
\* the trial began, and swapping twice with the same idx gives the games list
\* back.
C6_RevertRestores ==
    /\ (pc \in {"loop", "done"} /\ hist.outcome = "reverted") =>
          /\ games = before[1]
          /\ sched = before[2]
          /\ diff = before[3]
    /\ pc = "swapped" =>
          /\ games = swap(before[1], idx)
          /\ swap(games, idx) = before[1]
          /\ swap(swap(games, idx), idx) = games

C6_Witness == pc = "loop" /\ hist.outcome = "reverted" /\ n >= 1 /\ games # <<>>

C9_InvalidConfigurationFailsFast ==
    (P < 4 \/ courts < 1) =>
        (pc = "call" \/ (pc = "raised" /\ err = "InvalidConfiguration"))

\* ---- properties of single calls ----------------------------------------
\* The positions <<round, place>> of a schedule.
Slots(rounds) ==
    UNION {{<<r, k>> : k \in 1..Len(rounds[r])} : r \in 1..Len(rounds)}

WellFormedGames(gs) ==
    /\ \A g \in 1..Len(gs) : WellFormedGame(gs[g])
    /\ \A g, h \in 1..Len(gs) : g # h => gs[g] # gs[h]

ScheduleReturned == pc = "returned" /\ fn = "schedule"

\* C3: for a list of distinct well-formed games and courts >= 1, any two games
\* in a round of schedule(games, courts) have disjoint players, no round has
\* more than courts games, and every input game is in exactly one round.
C3_ScheduleDisjointComplete ==
    (ScheduleReturned /\ WellFormedGames(arg.games) /\ arg.courts >= 1) =>
        LET gs == arg.games IN
        /\ \A r \in 1..Len(ret) :
              /\ Len(ret[r]) <= arg.courts
              /\ \A x, y \in 1..Len(ret[r]) :
                    x # y => disjoint(players_game(gs[ret[r][x]]),
                                      players_game(gs[ret[r][y]]))
        /\ \A g \in 1..Len(gs) :
              Cardinality({rk \in Slots(ret) : gs[ret[rk[1]][rk[2]]] = gs[g]}) = 1
        /\ Cardinality(Slots(ret)) = Len(gs)

\* A call that put two games in one round and left a game for a later round.
C3_Witness ==
    /\ ScheduleReturned /\ WellFormedGames(arg.games) /\ arg.courts >= 1
    /\ Len(ret) >= 2
    /\ \E r \in 1..Len(ret) : Len(ret[r]) = 2

MakeGamesReturned == pc = "returned" /\ fn = "make_games"

\* The pairs in the two positions of the games of a game list.
PairSlots(gs) == (1..Len(gs)) \X (1..2)

UsedPairs(gs) == {gs[t[1]][t[2]] : t \in PairSlots(gs)}

\* C4: when make_games returns a game list for distinct pairs, every game has
\* two pairs with 4 distinct players, every pair comes from the input, and no
\* pair is used twice.
C4_MakeGamesWellFormed ==
    (MakeGamesReturned /\ ret # None) =>
        /\ \A g \in 1..Len(ret) :
              /\ Len(ret[g]) = 2
              /\ WellFormedGame(ret[g])
        /\ UsedPairs(ret) \subseteq Range(arg.pairs)
        /\ \A t, u \in PairSlots(ret) : t # u => ret[t[1]][t[2]] # ret[u[1]][u[2]]

C4_Witness == MakeGamesReturned /\ ret # None /\ Len(ret) >= 2

\* C5: for P in 4..MaxAllP, make_games(all_pairs(P)) is a game list of
\* floor(P*(P-1)/4) games that uses every pair when P or P-1 is divisible by
\* 4 and leaves exactly one pair out otherwise.
C5_AllPairsConsumed ==
    \A p \in 4..MaxAllP :
        (MakeGamesReturned /\ arg.pairs = all_pairs(p)) =>
            /\ ret # None
            /\ Len(ret) = (p * (p - 1)) \div 4
            /\ LET left == Range(arg.pairs) \ UsedPairs(ret)
               IN  IF p % 4 = 0 \/ (p - 1) % 4 = 0
                   THEN left = {}
                   ELSE Cardinality(left) = 1

C5_Witness ==
    /\ MakeGamesReturned /\ arg.pairs = all_pairs(6) /\ ret # None
    /\ Cardinality(Range(arg.pairs) \ UsedPairs(ret)) = 1

OppReturned == pc = "returned" /\ fn = "opp_difference"

\* The opponent tally of a pair, stated directly: the number of (game, player
\* of its first pair, player of its second pair) with these two players.
TallyOf(gs, pair) ==
    Cardinality({t \in (1..Len(gs)) \X (1..2) \X (1..2) :
                    pairing(gs[t[1]][1][t[2]], gs[t[1]][2][t[3]]) = pair})

\* C8: opp_difference(games, pairs, optimal) is >= 0, is 0 exactly when every
\* pair of pairs has tally optimal, and every pair that never meets adds
\* optimal^3 (the whole result when all other pairs are at optimal).
C8_OppDifferenceZeroIff ==
    OppReturned =>
        LET ks == 1..Len(arg.pairs)
            never == {k \in ks : TallyOf(arg.games, arg.pairs[k]) = 0}
            cube == arg.optimal * arg.optimal * arg.optimal
        IN  /\ ret >= 0
            /\ (ret = 0) <=> (\A k \in ks : TallyOf(arg.games, arg.pairs[k]) = arg.optimal)
            /\ ret >= Cardinality(never) * cube
            /\ (\A k \in ks \ never : TallyOf(arg.games, arg.pairs[k]) = arg.optimal)
                  => ret = Cardinality(never) * cube

\* Cost 0 for optimal = 2 on a non-empty game list: every pair meets twice.
C8_Witness ==
    /\ OppReturned /\ arg.optimal = 2 /\ arg.games # <<>>
    /\ ret = 0

\* The output of schedule(make_games(all_pairs(8))) shown in the notebook.
ScheduleOutput8 ==
    << << << <<0, 1>>, <<2, 3>> >>, << <<4, 5>>, <<6, 7>> >> >>,
       << << <<0, 2>>, <<1, 3>> >>, << <<4, 6>>, <<5, 7>> >> >>,
       << << <<0, 3>>, <<1, 2>> >>, << <<4, 7>>, <<5, 6>> >> >>,
       << << <<0, 4>>, <<1, 5>> >>, << <<2, 6>>, <<3, 7>> >> >>,
       << << <<0, 5>>, <<1, 4>> >>, << <<2, 7>>, <<3, 6>> >> >>,
       << << <<0, 6>>, <<1, 7>> >>, << <<2, 4>>, <<3, 5>> >> >>,
       << << <<0, 7>>, <<1, 6>> >>, << <<2, 5>>, <<3, 4>> >> >> >>

Schedule8Returned ==
    ScheduleReturned /\ arg.games = make_games(all_pairs(BigP)) /\ arg.courts = 2

\* C10: schedule(make_games(all_pairs(8)), 2) has exactly 7 rounds of exactly
\* 2 games with disjoint players (the rounds the notebook shows).
C10_Schedule8SevenRounds ==
    Schedule8Returned =>
        /\ Len(ret) = 7
        /\ \A r \in 1..Len(ret) :
              /\ Len(ret[r]) = 2
              /\ disjoint(players_game(arg.games[ret[r][1]]),
                          players_game(arg.games[ret[r][2]]))
        /\ RoundsOf(arg.games, ret) = ScheduleOutput8

C10_Witness == Schedule8Returned /\ Len(ret) = 7 /\ Len(ret[7]) = 2

\* C11: pickleball(16, 4, N) never holds, and so never returns, a schedule
\* of more than 15 rounds, whatever the draws; the initial schedule of the 60
\* games already has 15 rounds of 4 games.
C11_TournamentAtMost15Rounds ==
    (P = TourP /\ courts = TourCourts /\ pc \in {"loop", "swapped", "done"}) =>
        /\ Len(games) = 60
        /\ Len(hist.sched0) = 15
        /\ \A r \in 1..Len(hist.sched0) : Len(hist.sched0[r]) = 4
        /\ Len(sched) <= 15

\* The tournament has returned after a trial that was kept and that changed
\* the schedule.
C11_Witness ==
    /\ P = TourP /\ courts = TourCourts /\ pc = "done" /\ n >= 1
    /\ hist.outcome = "kept"
    /\ Len(sched) = 15
    /\ RoundsOf(games, sched) # RoundsOf(before[1], before[2])

\* The pairs of a game list, and how often a pair occurs in it.
PairsOf(gs) == {gs[g][s] : g \in 1..Len(gs), s \in {1, 2}}

PairCount(gs, p) ==
    Cardinality({gs2 \in (1..Len(gs)) \X {1, 2} : gs[gs2[1]][gs2[2]] = p})

\* How often a pair occurs in the games of a schedule.
SchedPairCount(gs, sch, p) ==
    Cardinality({x \in (1..Len(sch)) \X (1..Len(gs)) \X {1, 2} :
                    /\ x[2] <= Len(sch[x[1]])
                    /\ gs[sch[x[1]][x[2]]][x[3]] = p})

\* C12: whatever trials have run, kept or reverted, the games list holds the
\* pairs of make_games(all_pairs(P)), each as often as there, in as many games;
\* every pair of the initial games occurs exactly once in the schedule returned.
C12_PartnershipsUnchanged ==
    pc \in {"loop", "swapped", "done"} =>
        LET init == hist.games0
        IN  /\ (n = 0 /\ pc = "loop") =>
                  init = make_games(all_pairs(P)) /\ games = init
            /\ Len(games) = Len(init)
            /\ \A p \in PairsOf(games) \cup PairsOf(init) :
                  PairCount(games, p) = PairCount(init, p)
            /\ pc = "done" =>
                  \A p \in PairsOf(init) : SchedPairCount(games, sched, p) = 1

\* pickleball has returned after a kept trial, with a games list that is not
\* the initial one.
C12_Witness ==
    /\ pc = "done" /\ n >= 1
    /\ hist.outcome = "kept"
    /\ games # hist.games0
    /\ PairsOf(games) = PairsOf(hist.games0)

\* A grouping of a list of pairs: games, each two positions of the list whose
\* pairs have 4 players, no position in two games, fewer than 2 positions in
\* no game.
IsGrouping(ps, M) ==
    /\ \A e \in M :
          /\ e \subseteq 1..Len(ps) /\ Cardinality(e) = 2
          /\ \A i, j \in e : i # j =>
                Cardinality({ps[i][1], ps[i][2], ps[j][1], ps[j][2]}) = 4
    /\ \A e, f \in M : e # f => e \cap f = {}
    /\ Cardinality((1..Len(ps)) \ UNION M) < 2

Groupings(ps) ==
    {M \in SUBSET {e \in SUBSET (1..Len(ps)) : Cardinality(e) = 2} : IsGrouping(ps, M)}

\* Every pair listed after a pair in no game plays a pair listed before it:
\* the groupings in which the first pair not yet in a game is never passed
\* over while another pair is left.
Anchored(ps, M) ==
    \A l \in (1..Len(ps)) \ UNION M :
        \A k \in (l + 1)..Len(ps) : \E e \in M : k \in e /\ \E j \in e : j < l

\* The grouping a returned game list stands for.
GroupingOf(ps, gs) ==
    {{CHOOSE k \in 1..Len(ps) : ps[k] = gs[g][s] : s \in {1, 2}} : g \in 1..Len(gs)}

\* C13 as claimed: make_games returns None only if no grouping of the pairs
\* into games of 4 players leaves fewer than 2 pairs out, and a returned list
\* for n pairs has floor(n/2) games.
C13_CompleteSearch ==
    MakeGamesReturned =>
        /\ ret = None => Groupings(arg.pairs) = {}
        /\ ret # None => Len(ret) = Len(arg.pairs) \div 2

\* C13, amended: make_games returns None exactly when no grouping exists in
\* which every pair listed after the pair left out plays a pair listed before
\* it; a returned list is such a grouping and has floor(n/2) games.
C13_AnchoredSearchComplete ==
    MakeGamesReturned =>
        /\ ret = None => \A M \in Groupings(arg.pairs) : ~Anchored(arg.pairs, M)
        /\ ret # None =>
              /\ UsedPairs(ret) \subseteq Range(arg.pairs)
              /\ IsGrouping(arg.pairs, GroupingOf(arg.pairs, ret))
              /\ Anchored(arg.pairs, GroupingOf(arg.pairs, ret))
              /\ Cardinality(GroupingOf(arg.pairs, ret)) = Len(ret)
              /\ Len(ret) = Len(arg.pairs) \div 2

\* make_games has returned None for three pairs of which the last two make a
\* game: only the groupings that pass over the first pair exist.
C13_Witness ==
    /\ MakeGamesReturned /\ ret = None
    /\ Len(arg.pairs) = 3
    /\ Groupings(arg.pairs) # {}
    /\ \A M \in Groupings(arg.pairs) : ~Anchored(arg.pairs, M)

\* The games (positions of the input) placed in the rounds before round r.
PlacedBefore(sch, r) == UNION {Range(sch[q]) : q \in 1..(r - 1)}

\* C14: schedule is first-fit in input order.  For courts >= 1 the games of a
\* round are in input order, the first game of a round is the first game of
\* the input not placed before, and a game placed after a round that ends
\* with fewer than courts games shares a player with a game of that round
\* that precedes it in the input.
C14_FirstFitInInputOrder ==
    (ScheduleReturned /\ WellFormedGames(arg.games) /\ arg.courts >= 1) =>
        LET gs == arg.games IN
        \A r \in 1..Len(ret) :
            /\ \A x, y \in 1..Len(ret[r]) : x < y => ret[r][x] < ret[r][y]
            /\ ret[r] # <<>>
            /\ \A g \in (1..Len(gs)) \ PlacedBefore(ret, r) : ret[r][1] <= g
            /\ Len(ret[r]) < arg.courts =>
                  \A q \in (r + 1)..Len(ret) : \A y \in 1..Len(ret[q]) :
                      \E x \in 1..Len(ret[r]) :
                          /\ ret[r][x] < ret[q][y]
                          /\ ~disjoint(players_game(gs[ret[r][x]]),
                                       players_game(gs[ret[q][y]]))

\* A call with a round that ends with a court free and a later round of two
\* games.
C14_Witness ==
    /\ ScheduleReturned /\ WellFormedGames(arg.games) /\ arg.courts >= 2
    /\ \E r \in 1..Len(ret) : \E q \in (r + 1)..Len(ret) :
          /\ Len(ret[r]) < arg.courts
          /\ Len(ret[q]) >= 2

\* C15: for courts >= 1 schedule terminates, on the lists pickleball passes
\* in the middle of a trial too: every pass of the while loop puts the first
\* remaining game in its round and leaves fewer games, the call returns, and
\* no round it returns is empty.
C15_ScheduleTerminates ==
    /\ [][(pc = "while" /\ pc' = "while" /\ arg.courts >= 1) =>
             /\ Len(ret'.rem) < Len(ret.rem)
             /\ Len(ret'.sched) = Len(ret.sched) + 1
             /\ ret'.sched[Len(ret'.sched)] # <<>>
             /\ ret'.sched[Len(ret'.sched)][1] = ret.rem[1]]_vars
    /\ [][(pc = "while" /\ pc' = "return" /\ arg.courts >= 1) =>
             /\ ret.sched = schedule(arg.games, arg.courts)
             /\ ~schedule_diverges(arg.games, arg.courts)
             /\ \A r \in 1..Len(ret.sched) : ret.sched[r] # <<>>]_vars
    /\ <>(pc = "return" \/ arg.courts < 1)

\* schedule has returned two or more rounds for a list with a game in which
\* a player is twice.
C15_Witness ==
    /\ pc = "return" /\ fn = "schedule" /\ arg.courts >= 1
    /\ \E g \in 1..Len(arg.games) : Cardinality(players_game(arg.games[g])) < 4
    /\ Len(ret.sched) >= 2
    /\ \A r \in 1..Len(ret.sched) : ret.sched[r] # <<>>

\* C16: at the start and at the end of every trial, and when pickleball
\* returns, sched is schedule(games, courts) and diff is
\* opp_difference(games, all_pairs(P)); the rounds of sched hold the game
\* objects of the games list, and their games are those of the candidate that
\* was assigned to sched last (the initial schedule if no trial was kept).
C16_TrackedStateConsistent ==
    pc \in {"loop", "done"} =>
        /\ sched = schedule(games, courts)
        /\ diff = opp_difference(games, all_pairs(P), Optimal)
        /\ \A r \in 1..Len(sched) : \A k \in 1..Len(sched[r]) :
              sched[r][k] \in 1..Len(games)
        /\ RoundsOf(games, sched) = hist.candidate

\* pickleball has returned after a kept trial that changed the schedule.
C16_Witness ==
    /\ pc = "done" /\ n >= 1
    /\ hist.outcome = "kept"
    /\ hist.candidate # RoundsOf(hist.games0, hist.sched0)
    /\ RoundsOf(games, sched) = hist.candidate

====
